---- MODULE Spec2Model ----
(***************************************************************************)
(* Request handling of the RyanClaw Research API (x402-research-api).      *)
(*                                                                         *)
(* Three deployment variants of one Express application are modelled:      *)
(*   "free"         src/index.js            no payment middleware          *)
(*   "gated_base"   src/unnamed/part_000    x402 middleware, network base  *)
(*   "gated_eip155" src/unnamed/part_001    x402 middleware, eip155:8453   *)
(*                                                                         *)
(* Every request is a little process: it is received, (in the gated        *)
(* variants) held by the payment middleware while the facilitator verifies *)
(* its proof, then runs the route handler, which awaits its upstream calls *)
(* one after the other and finally sends one response.  Node's event loop  *)
(* runs each continuation to its next await without interruption, so one   *)
(* action is one such run-to-await slice of one request.                   *)
(***************************************************************************)
EXTENDS Integers, Sequences, FiniteSets, TLC

\* ------------------------------------------------------------------ bounds
MaxReqs    == 2      \* requests in one behaviour
MaxItems   == 1      \* items in an upstream list (search results, commits)
MaxPageLen == 5100   \* longest stripped page text drawn in SpecExtract

\* ------------------------------------------------- constants of the source
ExtractCeiling == 5000   \* .substring(0, 5000)
ExtractCut     == 2000   \* extracted.substring(0, 2000), length > 2000
ShaLen         == 7      \* c.sha.substring(0, 7)

Reqs     == 1..MaxReqs
Variants == {"free", "gated_base", "gated_eip155"}

Routes == {"/", "/api/search", "/api/fetch", "/api/analyze-github"}

\* A required query parameter is either absent/empty (falsy in JS) or some
\* non-empty string.
NoParam == ""
Params  == {"p"}

Proofs == {"none", "present"}

Min(a, b) == IF a < b THEN a ELSE b

\* ------------------------------------------------------------------ strings
\* A text is a slice of the page's stripped text: the characters
\* off+1 .. off+len.  substring follows String.prototype.substring for
\* 0 <= a <= b.
Text(n) == [off |-> 0, len |-> n]

substringTail(t, a, b) ==
    [off |-> t.off + (t.len - (Min(b, t.len) - Min(a, t.len))),
     len |-> Min(b, t.len) - Min(a, t.len)]

substring(t, a, b) ==
    [off |-> t.off + Min(a, t.len), len |-> Min(b, t.len) - Min(a, t.len)]

\* ---------------------------------------------------------- upstream bodies
\* What one upstream call can come back with.  net_error: fetch() rejects;
\* bad_body: response.json()/text() rejects; every other kind is a parsed
\* body.  len is the number of list items, or the length of the stripped
\* page text.
Outcome(k, n) == [kind |-> k, len |-> n]

PageLens == {0, ExtractCut, ExtractCut + 1, ExtractCeiling + 1}

SearchOutcomes ==
    {Outcome(k, 0) : k \in {"net_error", "bad_body", "null", "no_web", "bad_results"}}
      \cup {Outcome("results", n) : n \in 0..MaxItems}
PageOutcomes ==
    {Outcome(k, 0) : k \in {"net_error", "bad_body"}}
      \cup {Outcome("text", n) : n \in PageLens}
\* For the three GitHub calls one throwing outcome stands for both a fetch()
\* that rejects and a body that is not JSON: either way control is in the
\* handler's catch with an Error carrying a message.
RepoOutcomes ==
    {Outcome(k, 0) : k \in {"net_error", "null", "object", "error_object"}}
LanguagesOutcomes ==
    {Outcome(k, 0) : k \in {"bad_body", "object", "error_object"}}
CommitsOutcomes ==
    {Outcome(k, 0) : k \in {"net_error", "null", "error_object", "bad_list"}}
      \cup {Outcome("list", n) : n \in 0..MaxItems}

\* The awaited call itself throws (fetch rejects or the body cannot be read).
Rejected(o) == o.kind \in {"net_error", "bad_body"}

Message(o) ==
    CASE o.kind = "net_error" -> "fetch failed"
      [] o.kind = "bad_body"  -> "Unexpected token in JSON"
      [] OTHER                -> "none"

\* ------------------------------------------------------------- responses
Response(st, b) == [status |-> st, body |-> b]

\* res.status(500).json({ error: error.message })
Error500(msg) == Response(500, [error |-> msg])

MissingParamMessage(route) ==
    CASE route = "/api/search" -> "Missing query parameter 'q'"
      [] route = "/api/fetch"  -> "Missing URL parameter"
      [] OTHER                 -> "Missing repo parameter (e.g., 'facebook/react')"

Error400StatusUnset(route) == Response(200, [error |-> MissingParamMessage(route)])

\* return res.status(400).json({ error: ... })
Error400(route) == Response(400, [error |-> MissingParamMessage(route)])

\* GET / : service metadata, never gated
Health(v) ==
    Response(200, [service |-> "RyanClaw Research API",
                   version |-> IF v = "free" THEN "3.0.0" ELSE "1.0.0"])

\* ------------------------------------------------------- response shapers
\* The bodies GitHub and the search provider send, built from an outcome.
UpstreamResults(n) ==
    [i \in 1..n |-> [title |-> "t", url |-> "u", description |-> "d"]]

UpstreamCommits(n) ==
    [i \in 1..n |-> [sha     |-> Text(40),
                     message |-> <<"fix bug", "", "longer body">>,
                     author  |-> [name |-> "n", date |-> "d"]]]

\* (data.web?.results || []).map(r => ({title, url, snippet: r.description}))
shapeSearch(results) ==
    [i \in 1..Len(results) |->
        [title   |-> results[i].title,
         url     |-> results[i].url,
         snippet |-> results[i].description]]

\* GET /api/search, after the upstream body arrived
SearchResponse(q, data) ==
    CASE data.kind = "null" ->
           Error500("Cannot read properties of null (reading 'web')")
      [] data.kind = "bad_results" ->
           Error500("(intermediate value).map is not a function")
      [] data.kind = "no_web" ->
           Response(200, [query |-> q, count |-> 0, results |-> <<>>])
      [] OTHER ->
           LET results == shapeSearch(UpstreamResults(data.len))
           IN  Response(200, [query |-> q, count |-> Len(results),
                              results |-> results])

\* text.replace(...)...trim().substring(0, 5000): the text after the strip,
\* collapse and trim stages has page.len characters; the ceiling is applied
\* to it.
capExtracted(stripped) == substring(stripped, 0, ExtractCeiling)

isTruncatedAtLeast(extracted) == extracted.len >= ExtractCut

\* truncated: extracted.length > 2000
isTruncated(extracted) == extracted.len > ExtractCut

exposeExtractedTail(extracted) == substringTail(extracted, 0, ExtractCut)

\* extracted: extracted.substring(0, 2000)
exposeExtracted(extracted) == substring(extracted, 0, ExtractCut)

\* GET /api/fetch, after the page text arrived
FetchResponse(url, page) ==
    LET extracted == capExtracted(Text(page.len))
    IN  Response(200, [url       |-> url,
                       extracted |-> exposeExtracted(extracted),
                       truncated |-> isTruncated(extracted)])

\* commitsData.map(c => ({sha: c.sha.substring(0, 7), message: first line,
\*                        author: c.commit.author.name, date: ...}))
shapeCommits(commits) ==
    [i \in 1..Len(commits) |->
        [sha     |-> substring(commits[i].sha, 0, ShaLen),
         message |-> Head(commits[i].message),
         author  |-> commits[i].author.name,
         date    |-> commits[i].author.date]]

\* A metadata field of repoData: present on a repository object, undefined
\* on an error-shaped object such as {message: "Not Found"}.
RepoField(repoData, f) == IF repoData.kind = "object" THEN f ELSE "undefined"

AnalyzeResponseLenient(repoData, langData, commitsData) ==
    IF repoData.kind = "null"
    THEN Error500("Cannot read properties of null (reading 'name')")
    ELSE Response(200, [analysis |->
             [name           |-> RepoField(repoData, "name"),
              stars          |-> RepoField(repoData, "stargazers_count"),
              languages      |-> langData.kind,
              recent_commits |->
                 IF commitsData.kind = "list"
                 THEN shapeCommits(UpstreamCommits(commitsData.len))
                 ELSE <<>>]])

\* The merge of GET /api/analyze-github: const analysis = {...};
\* res.json({ analysis }), inside the handler's try.  The object literal is
\* evaluated top to bottom: repoData.name first, commitsData.map last.
AnalyzeResponse(repoData, langData, commitsData) ==
    CASE repoData.kind = "null" ->
           Error500("Cannot read properties of null (reading 'name')")
      [] commitsData.kind \in {"null", "undefined"} ->
           Error500("Cannot read properties of null (reading 'map')")
      [] commitsData.kind = "error_object" ->
           Error500("commitsData.map is not a function")
      [] commitsData.kind = "bad_list" ->
           Error500("Cannot read properties of undefined (reading 'substring')")
      [] OTHER ->
           Response(200, [analysis |->
             [name           |-> RepoField(repoData, "name"),
              stars          |-> RepoField(repoData, "stargazers_count"),
              languages      |-> langData.kind,
              recent_commits |-> shapeCommits(UpstreamCommits(commitsData.len))]])

\* ------------------------------------------------------- handler control
\* The upstream calls a handler awaits, in the order of its awaits.
UpstreamCallsNoCommits(route) ==
    CASE route = "/api/search"         -> <<"search">>
      [] route = "/api/fetch"          -> <<"page">>
      [] route = "/api/analyze-github" -> <<"repo", "languages">>
      [] OTHER                         -> <<>>

UpstreamCalls(route) ==
    CASE route = "/api/search"         -> <<"search">>
      [] route = "/api/fetch"          -> <<"page">>
      [] route = "/api/analyze-github" -> <<"repo", "languages", "commits">>
      [] OTHER                         -> <<>>

NextCallRetry(route, issued, o) ==
    IF Rejected(o) /\ Len(issued) < 2 THEN issued[Len(issued)]
    ELSE IF Rejected(o) THEN "none"
    ELSE IF Len(issued) < Len(UpstreamCalls(route))
         THEN UpstreamCalls(route)[Len(issued) + 1]
         ELSE "none"

\* The call the handler issues when the awaited call came back with o:
\* none when it threw (control is in the catch block) or when it was the
\* last await of the try block.
NextCall(route, issued, o) ==
    IF Rejected(o) THEN "none"
    ELSE IF Len(issued) < Len(UpstreamCalls(route))
         THEN UpstreamCalls(route)[Len(issued) + 1]
         ELSE "none"

At(g, i) == IF i <= Len(g) THEN g[i] ELSE Outcome("undefined", 0)

\* The synchronous head of a route handler: the health reply, or the
\* parameter check and its early return, or the first await of the try.
HandlerEnterNoReturn(v, route, param) ==
    CASE route = "/"     -> [resp |-> <<Health(v)>>, call |-> "none"]
      [] param = NoParam -> [resp |-> <<Error400(route)>>,
                             call |-> UpstreamCalls(route)[1]]
      [] OTHER           -> [resp |-> <<>>, call |-> UpstreamCalls(route)[1]]

HandlerEnter(v, route, param) ==
    CASE route = "/"     -> [resp |-> <<Health(v)>>, call |-> "none"]
      [] param = NoParam -> [resp |-> <<Error400(route)>>, call |-> "none"]
      [] OTHER           -> [resp |-> <<>>, call |-> UpstreamCalls(route)[1]]

\* The response the try/catch of a handler sends once no call is left to
\* issue; g holds the outcomes of the calls awaited so far.
HandlerFinishNo500(route, param, g) ==
    CASE route = "/api/search" /\ ~Rejected(g[Len(g)]) -> SearchResponse(param, g[1])
      [] route = "/api/fetch" /\ ~Rejected(g[Len(g)])  -> FetchResponse(param, g[1])
      [] route = "/api/analyze-github" /\ ~Rejected(g[Len(g)]) ->
             AnalyzeResponse(At(g, 1), At(g, 2), At(g, 3))
      [] OTHER -> Response(200, [error |-> Message(g[Len(g)])])

HandlerFinish(route, param, g) ==
    CASE Rejected(g[Len(g)])           -> Error500(Message(g[Len(g)]))
      [] route = "/api/search"         -> SearchResponse(param, g[1])
      [] route = "/api/fetch"          -> FetchResponse(param, g[1])
      [] OTHER -> AnalyzeResponse(At(g, 1), At(g, 2), At(g, 3))

\* ------------------------------------------------------------ payment gate
\* The route table handed to paymentMiddleware, mounted by app.use(payment)
\* ahead of every route.
PaymentRoutesPartial(v) ==
    IF v = "free" THEN {}
    ELSE {"/api/search", "/api/analyze-github"}

PaymentRoutes(v) ==
    IF v = "free" THEN {}
    ELSE {"/api/search", "/api/fetch", "/api/analyze-github"}

\* The gate's first decision on a matching request: without a payment-proof
\* header it rejects at once, otherwise it asks the facilitator.
paymentVerdict(proof) == IF proof = "none" THEN "REJECTED" ELSE "VERIFYING"

\* The gate's decision once the facilitator answered.
verifyVerdict(answer) == IF answer = "ok" THEN "AUTHORIZED" ELSE "REJECTED"

\* The gate's own rejection response.
PaymentRequired == Response(402, [error |-> "payment required"])

\* ------------------------------------------------------------------- state
VARIABLES
    variant,   \* which of the three files is deployed
    req,       \* req[r]: route, required query parameter, payment proof
    pc,        \* pc[r]: "idle", "verifying", "await" or "done"
    gate,      \* gate[r]: "NONE", "VERIFYING", "AUTHORIZED" or "REJECTED"
    verify,    \* verify[r]: the facilitator's answer: "unasked", "pending",
               \*            "ok" or "failed"
    calls,     \* calls[r]: the upstream calls issued for r, in order
    got,       \* got[r]: the outcomes of r's upstream calls, in order
    resp,      \* resp[r]: the responses sent for r, in order
    merged     \* merged[r]: the analyze-github merge step has run for r

vars == <<variant, req, pc, gate, verify, calls, got, resp, merged>>

Request(route, param, proof) ==
    [route |-> route, param |-> param, proof |-> proof]

NoRequest == Request("none", NoParam, "none")

Init ==
    /\ variant \in Variants
    /\ req    = [r \in Reqs |-> NoRequest]
    /\ pc     = [r \in Reqs |-> "idle"]
    /\ gate   = [r \in Reqs |-> "NONE"]
    /\ verify = [r \in Reqs |-> "unasked"]
    /\ calls  = [r \in Reqs |-> <<>>]
    /\ got    = [r \in Reqs |-> <<>>]
    /\ resp   = [r \in Reqs |-> <<>>]
    /\ merged = [r \in Reqs |-> FALSE]

StoreQueryShared(r, rq) ==
    [i \in Reqs |-> IF i = r THEN rq
                    ELSE IF pc[i] = "idle" THEN req[i]
                    ELSE [req[i] EXCEPT !.param = rq.param]]

\* const { q } = req.query (and url, repo): the parameters live in the
\* handler invocation's own scope.
StoreQuery(r, rq) == [req EXCEPT ![r] = rq]

\* Express calls the route handler of rq for request r.
RunHandler(r, rq) ==
    LET h == HandlerEnter(variant, rq.route, rq.param)
    IN  /\ resp'  = [resp EXCEPT ![r] = h.resp]
        /\ calls' = [calls EXCEPT ![r] =
                        IF h.call = "none" THEN <<>> ELSE <<h.call>>]
        /\ pc'    = [pc EXCEPT ![r] = IF h.call = "none" THEN "done" ELSE "await"]

\* A request arrives and runs down the middleware stack until it responds
\* or reaches its first await.
Receive(r) ==
    /\ pc[r] = "idle"
    /\ r > 1 => pc[r - 1] # "idle"
    /\ \E route \in Routes, param \in Params \cup {NoParam}, proof \in Proofs :
         LET rq == Request(route, param, proof)
         IN  /\ route = "/" => param = NoParam
             \* index.js mounts nothing that reads a payment header
             /\ variant = "free" => proof = "none"
             /\ req' = StoreQuery(r, rq)
             /\ IF route \in PaymentRoutes(variant)
                THEN /\ gate' = [gate EXCEPT ![r] = paymentVerdict(proof)]
                     /\ IF paymentVerdict(proof) = "REJECTED"
                        THEN /\ resp' = [resp EXCEPT ![r] = <<PaymentRequired>>]
                             /\ pc'   = [pc EXCEPT ![r] = "done"]
                        ELSE /\ resp' = resp
                             /\ pc'   = [pc EXCEPT ![r] = "verifying"]
                     /\ verify' = [verify EXCEPT ![r] =
                                     IF paymentVerdict(proof) = "VERIFYING"
                                     THEN "pending" ELSE "unasked"]
                     /\ calls' = calls
                ELSE /\ UNCHANGED <<gate, verify>>
                     /\ RunHandler(r, rq)
    /\ UNCHANGED <<variant, got, merged>>

\* The facilitator answers the verification of r's proof; the gate rejects
\* the request or passes it on to its route handler.
VerifyReturns(r) ==
    /\ pc[r] = "verifying"
    /\ \E answer \in {"ok", "failed"} :
         /\ verify' = [verify EXCEPT ![r] = answer]
         /\ gate' = [gate EXCEPT ![r] = verifyVerdict(answer)]
         /\ IF verifyVerdict(answer) = "AUTHORIZED"
            THEN RunHandler(r, req[r])
            ELSE /\ resp'  = [resp EXCEPT ![r] = <<PaymentRequired>>]
                 /\ pc'    = [pc EXCEPT ![r] = "done"]
                 /\ calls' = calls
    /\ UNCHANGED <<variant, req, got, merged>>

\* The awaited upstream call of r comes back with outcome o: the handler
\* resumes and runs to its next await or to its response.
Resume(r, call, o) ==
    /\ pc[r] = "await"
    /\ calls[r][Len(calls[r])] = call
    /\ LET g    == Append(got[r], o)
           next == NextCall(req[r].route, calls[r], o)
       IN  /\ got' = [got EXCEPT ![r] = g]
           /\ IF next # "none"
              THEN /\ calls'  = [calls EXCEPT ![r] = Append(calls[r], next)]
                   /\ UNCHANGED <<resp, pc, merged>>
              ELSE /\ resp'   = [resp EXCEPT ![r] =
                                   resp[r] \o <<HandlerFinish(req[r].route, req[r].param, g)>>]
                   /\ merged' = [merged EXCEPT ![r] =
                                   req[r].route = "/api/analyze-github" /\ ~Rejected(o)]
                   /\ pc'     = [pc EXCEPT ![r] = "done"]
                   /\ calls'  = calls
    /\ UNCHANGED <<variant, req, gate, verify>>

SearchReturns(r)    == \E o \in SearchOutcomes    : Resume(r, "search", o)
PageReturns(r)      == \E o \in PageOutcomes      : Resume(r, "page", o)
RepoReturns(r)      == \E o \in RepoOutcomes      : Resume(r, "repo", o)
LanguagesReturns(r) == \E o \in LanguagesOutcomes : Resume(r, "languages", o)
CommitsReturns(r)   == \E o \in CommitsOutcomes   : Resume(r, "commits", o)

Next ==
    \/ \E r \in Reqs : Receive(r)
    \/ \E r \in Reqs : VerifyReturns(r)
    \/ \E r \in Reqs : SearchReturns(r)
    \/ \E r \in Reqs : PageReturns(r)
    \/ \E r \in Reqs : RepoReturns(r)
    \/ \E r \in Reqs : LanguagesReturns(r)
    \/ \E r \in Reqs : CommitsReturns(r)

Spec == Init /\ [][Next]_vars

\* ------------------------------------------------- the extraction on its own
\* One /api/fetch request is awaiting its page; the page's stripped text has
\* any length up to MaxPageLen.
InitExtract ==
    /\ variant \in Variants
    /\ req    = [r \in Reqs |->
                    IF r = 1
                    THEN Request("/api/fetch", "p",
                                 IF variant = "free" THEN "none" ELSE "present")
                    ELSE NoRequest]
    /\ pc     = [r \in Reqs |-> IF r = 1 THEN "await" ELSE "idle"]
    /\ gate   = [r \in Reqs |-> IF r = 1 /\ "/api/fetch" \in PaymentRoutes(variant)
                                THEN "AUTHORIZED" ELSE "NONE"]
    /\ verify = [r \in Reqs |-> IF r = 1 /\ "/api/fetch" \in PaymentRoutes(variant)
                                THEN "ok" ELSE "unasked"]
    /\ calls  = [r \in Reqs |-> IF r = 1 THEN <<"page">> ELSE <<>>]
    /\ got    = [r \in Reqs |-> <<>>]
    /\ resp   = [r \in Reqs |-> <<>>]
    /\ merged = [r \in Reqs |-> FALSE]

PageTexts == {Outcome("text", n) : n \in 0..MaxPageLen}

PageTextReturns(r) == \E o \in PageTexts : Resume(r, "page", o)

NextExtract == \E r \in Reqs : PageTextReturns(r)

SpecExtract == InitExtract /\ [][NextExtract]_vars

\* ============================================================== properties
ApiRoutes == Routes \ {"/"}

Arrived(r) == pc[r] # "idle"
Done(r)    == pc[r] = "done"

\* The request has been handed to its route handler.
Handled(r) == Arrived(r) /\ pc[r] # "verifying" /\ gate[r] # "REJECTED"

NoDuplicates(sq) == \A i, j \in 1..Len(sq) : sq[i] = sq[j] => i = j

\* C1: in the gated variants a request to one of the three API routes that
\* carries no payment-proof header, or whose proof the facilitator does not
\* verify, is rejected by the payment gate, and no Upstream Client call is
\* issued for it.
C1_UnpaidNeverReachesUpstream ==
    \A r \in Reqs :
        (/\ Arrived(r)
         /\ variant # "free"
         /\ req[r].route \in ApiRoutes
         /\ (req[r].proof = "none" \/ verify[r] = "failed"))
        => /\ gate[r] = "REJECTED"
           /\ resp[r] = <<PaymentRequired>>
           /\ calls[r] = <<>>
           /\ got[r] = <<>>

C1_Witness ==
    /\ variant # "free"
    /\ \E r \in Reqs : /\ Done(r) /\ req[r].route = "/api/fetch"
                       /\ req[r].param # NoParam /\ req[r].proof = "none"
    /\ \E r \in Reqs : /\ Done(r) /\ req[r].route \in ApiRoutes
                       /\ req[r].param # NoParam /\ verify[r] = "failed"

\* C3 as stated: in every variant a request without its required query
\* parameter is answered with status 400 and an error field, and no outbound
\* call is made for it.
C3_Original ==
    \A r \in Reqs :
        (Done(r) /\ req[r].route \in ApiRoutes /\ req[r].param = NoParam)
        => /\ Len(resp[r]) = 1
           /\ resp[r][1].status = 400
           /\ "error" \in DOMAIN resp[r][1].body
           /\ calls[r] = <<>>

\* C3 amended: a request without its required query parameter never causes
\* an Upstream Client call; the 400 response with an error field is sent
\* whenever the request reaches its route handler (always in the free
\* variant, in the gated variants once the gate authorized it), and a
\* request the gate stops gets the gate's rejection instead.
C3_MissingParam ==
    \A r \in Reqs :
        (Arrived(r) /\ req[r].route \in ApiRoutes /\ req[r].param = NoParam)
        => /\ calls[r] = <<>>
           /\ got[r] = <<>>
           /\ variant = "free" => Handled(r)
           /\ Handled(r) =>
                /\ Done(r)
                /\ Len(resp[r]) = 1
                /\ resp[r][1].status = 400
                /\ DOMAIN resp[r][1].body = {"error"}
           /\ (Done(r) /\ ~Handled(r)) => resp[r] = <<PaymentRequired>>

C3_Witness ==
    /\ variant # "free"
    /\ \E r \in Reqs : /\ Done(r) /\ req[r].route = "/api/search"
                       /\ req[r].param = NoParam /\ gate[r] = "AUTHORIZED"
                       /\ resp[r][1].status = 400
    /\ \E r \in Reqs : /\ Done(r) /\ req[r].route \in ApiRoutes
                       /\ req[r].param = NoParam /\ gate[r] = "REJECTED"

\* C5: for a page whose stripped text has n characters, /api/fetch returns
\* the first min(n, 2000) characters of that text, and truncated is true
\* exactly when the text capped at 5000 characters is longer than 2000, so
\* for every n > 5000 and for no n <= 2000.
C5_TwoStageTruncation ==
    \A r \in Reqs :
        (/\ Done(r) /\ Handled(r) /\ req[r].route = "/api/fetch"
         /\ Len(got[r]) = 1 /\ got[r][1].kind = "text")
        => LET n == got[r][1].len
               b == resp[r][1].body
           IN  /\ Len(resp[r]) = 1
               /\ resp[r][1].status = 200
               /\ b.extracted.off = 0
               /\ b.extracted.len = Min(n, 2000)
               /\ b.truncated = (Min(n, 5000) > 2000)
               /\ n > 5000 => b.truncated
               /\ n <= 2000 => ~b.truncated

C5_Witness ==
    \E r \in Reqs :
        /\ Done(r) /\ req[r].route = "/api/fetch"
        /\ Len(got[r]) = 1 /\ got[r][1].kind = "text" /\ got[r][1].len > 5000
        /\ resp[r][1].body.truncated
        /\ resp[r][1].body.extracted.len = 2000

\* The request passed the parameter check of its handler.
Validated(r) ==
    Handled(r) /\ req[r].route \in ApiRoutes /\ req[r].param # NoParam

\* Some awaited upstream call of r threw.
SomeCallThrew(r) ==
    \E i \in 1..Len(got[r]) : got[r][i].kind \in {"net_error", "bad_body"}

\* The bodies r received make its shaping step throw.
ShapingThrows(r) ==
    /\ Len(got[r]) = Len(calls[r])
    /\ \/ /\ req[r].route = "/api/search"
          /\ Len(got[r]) = 1
          /\ got[r][1].kind \in {"null", "bad_results"}
       \/ /\ req[r].route = "/api/analyze-github"
          /\ Len(got[r]) = 3
          /\ \/ got[r][1].kind = "null"
             \/ got[r][3].kind \in {"null", "error_object", "bad_list"}

\* C6: for a request that passed parameter validation, a throwing upstream
\* call or shaping step yields status 500 with body {error: message}, and
\* each upstream call of the request is issued at most once (no retry).
C6_FailureIs500NoRetry ==
    \A r \in Reqs :
        Validated(r) =>
            /\ NoDuplicates(calls[r])
            /\ Len(calls[r]) <= 3
            /\ (Done(r) /\ (SomeCallThrew(r) \/ ShapingThrows(r))) =>
                   /\ Len(resp[r]) = 1
                   /\ resp[r][1].status = 500
                   /\ DOMAIN resp[r][1].body = {"error"}
                   /\ resp[r][1].body.error # "none"

C6_Witness ==
    /\ \E r \in Reqs : /\ Validated(r) /\ Done(r)
                       /\ calls[r] = <<"repo", "languages">>
                       /\ SomeCallThrew(r)
                       /\ resp[r][1].status = 500
    /\ \E r \in Reqs : /\ Validated(r) /\ Done(r)
                       /\ ShapingThrows(r) /\ ~SomeCallThrew(r)
                       /\ resp[r][1].status = 500

\* C7: when the commits call of an analyze-github request returns a body
\* that is not a sequence, the response is a 500 and never a 200 carrying
\* an analysis, whatever the repo and languages calls returned.
C7_NonSequenceCommitsIs500 ==
    \A r \in Reqs :
        (/\ Done(r) /\ Handled(r) /\ req[r].route = "/api/analyze-github"
         /\ Len(got[r]) = 3
         /\ got[r][3].kind \in {"null", "error_object"})
        => /\ Len(resp[r]) = 1
           /\ resp[r][1].status = 500
           /\ "analysis" \notin DOMAIN resp[r][1].body

C7_Witness ==
    \E r \in Reqs :
        /\ Done(r) /\ req[r].route = "/api/analyze-github"
        /\ Len(got[r]) = 3
        /\ got[r][1].kind = "object" /\ got[r][2].kind = "object"
        /\ got[r][3].kind = "error_object"
        /\ resp[r][1].status = 500

\* C8: the merge step of analyze-github runs only after the repo, languages
\* and commits calls have all been issued and have all completed; an
\* analysis is only ever sent by a merge.
C8_MergeAfterAllThree ==
    \A r \in Reqs :
        /\ merged[r] =>
              /\ req[r].route = "/api/analyze-github"
              /\ calls[r] = <<"repo", "languages", "commits">>
              /\ Len(got[r]) = 3
        /\ (\E i \in 1..Len(resp[r]) : "analysis" \in DOMAIN resp[r][i].body)
              => merged[r]
        /\ (req[r].route = "/api/analyze-github" /\ Len(got[r]) < 3)
              => ~merged[r]

C8_Witness ==
    \E r \in Reqs :
        /\ merged[r] /\ Len(got[r]) = 3
        /\ got[r][1].kind = "error_object"
        /\ resp[r][1].status = 200
        /\ "analysis" \in DOMAIN resp[r][1].body

\* Everything the program holds for request r, and what r brought with it.
Local(r) == <<req[r], pc[r], gate[r], verify[r], calls[r], got[r], resp[r], merged[r]>>
Own(r)   == <<req[r], verify[r], got[r]>>

\* C9: requests are independent under every interleaving: two requests with
\* the same parameters, proof, verification answer and upstream responses
\* get the same response whatever else is in flight, and no step changes
\* the state of more than one request.
C9_Determined ==
    \A r1, r2 \in Reqs :
        (Done(r1) /\ Done(r2) /\ Own(r1) = Own(r2)) => resp[r1] = resp[r2]

C9_OneRequestPerStep ==
    \A r1, r2 \in Reqs :
        (Local(r1)' # Local(r1) /\ Local(r2)' # Local(r2)) => r1 = r2

C9_Independent == [](C9_Determined) /\ [][C9_OneRequestPerStep]_vars

C9_Witness ==
    \E r1, r2 \in Reqs :
        /\ r1 # r2
        /\ pc[r1] = "await" /\ pc[r2] = "await"
        /\ req[r1].route = "/api/search" /\ req[r2].route = "/api/fetch"
        /\ Len(got[r1]) = 0 /\ Len(got[r2]) = 0

\* C10: a handler sends at most one response per request and issues no
\* upstream call once it has responded: the 400 is sent with no call
\* issued, and a request that issued calls ends with exactly one response,
\* the 200 or the 500, after every call it issued has come back.
C10_State ==
    \A r \in Reqs :
        /\ Len(resp[r]) <= 1
        /\ (resp[r] # <<>>) = Done(r)
        /\ (resp[r] # <<>> /\ resp[r][1].status = 400) => calls[r] = <<>>
        /\ (Done(r) /\ calls[r] # <<>>) =>
              /\ Len(got[r]) = Len(calls[r])
              /\ resp[r][1].status \in {200, 500}
        /\ Len(got[r]) <= Len(calls[r])

C10_Step ==
    \A r \in Reqs :
        resp[r] # <<>> => /\ resp'[r] = resp[r]
                          /\ calls'[r] = calls[r]
                          /\ got'[r] = got[r]

C10_OneResponse == [](C10_State) /\ [][C10_Step]_vars

C10_Witness ==
    /\ \E r \in Reqs : /\ Done(r) /\ Len(calls[r]) = 3 /\ Len(resp[r]) = 1
                       /\ resp[r][1].status = 200
    /\ \E r \in Reqs : /\ Done(r) /\ calls[r] = <<>> /\ Len(resp[r]) = 1
                       /\ resp[r][1].status = 400

====
